---- MODULE Spec2Model ----
(***************************************************************************)
(* Model of the slide-deck generation pipeline of ai-python-pptx:          *)
(*   - PPTXAgent (pptx_agent.py): the LangGraph workflow                   *)
(*     generate_story -> evaluate_story -> (loop | generate_slide_contents)*)
(*     -> generate_pptx_code -> END, and _with_retries_and_fallback;       *)
(*   - the four stages StoryGenerator, StoryEvaluator,                     *)
(*     SlideContentsGenerator, PPTXCodeGenerator with their own retry      *)
(*     loops and placeholder outputs;                                      *)
(*   - the generate handler of app.py: the code-fence gate, the sanitizer  *)
(*     and the three tiers that turn the generated code into a .pptx.      *)
(* One step of the model is one call of the text-generation service        *)
(* together with the handling its outcome gets in the stage, or one        *)
(* handler of the wrapper / one node update of the graph / one exec of      *)
(* generated code together with the handling of its outcome.               *)
(***************************************************************************)
EXTENDS Integers, Sequences, FiniteSets, TLC

\* ------------------------------------------------------------------------
\* Bounds of the model
\* ------------------------------------------------------------------------

\* largest max_retries an agent is constructed with (default 3)
MaxRetriesBound == 3

\* ------------------------------------------------------------------------
\* Program constants
\* ------------------------------------------------------------------------

\* the literal 5 of the conditional edge after evaluate_story
MaxIterations == 5

\* max_retries default of StoryGenerator / SlideContentsGenerator /
\* PPTXCodeGenerator; PPTXAgent constructs them with the default
StageMaxRetries == 2

\* model name of the fallback LLM
FallbackModel == "gpt-3.5-turbo"

\* model names a primary LLM is built with (main.py uses gpt-4o)
ModelNames == {"gpt-4o", "gpt-3.5-turbo"}

\* the four components whose .llm the wrapper swaps
Components ==
  {"story_generator", "story_evaluator", "slide_contents_generator", "pptx_code_generator"}

\* graph nodes, in the order of the workflow
GraphNodes ==
  {"generate_story", "evaluate_story", "generate_slide_contents", "generate_pptx_code"}

\* the component a node's closure calls
ComponentOf(n) ==
  CASE n = "generate_story" -> "story_generator"
    [] n = "evaluate_story" -> "story_evaluator"
    [] n = "generate_slide_contents" -> "slide_contents_generator"
    [] n = "generate_pptx_code" -> "pptx_code_generator"

\* the user request a run is started with
Requests == {"short text"}

\* ------------------------------------------------------------------------
\* Faults of the text-generation service, as lower-cased messages str(e).lower()
\* ------------------------------------------------------------------------
MsgTransient == "connection timed out"
MsgOther == "invalid request"
MsgInsufficientQuota == "error 429 insufficient_quota"
MsgRateLimitCode == "error 429 rate_limit_exceeded"
MsgQuotaExceeded == "429 quota exceeded"
MsgRateLimitText == "rate limit reached"

FaultMsgs ==
  {MsgTransient, MsgOther, MsgInsufficientQuota, MsgRateLimitCode, MsgQuotaExceeded,
   MsgRateLimitText}

\* marker value of last_error = None / no exception
None == "None"

\* the substrings the code searches for that occur in each message
Substrings(msg) ==
  CASE msg = MsgInsufficientQuota -> {"insufficient_quota"}
    [] msg = MsgRateLimitCode -> {"rate_limit", "rate", "limit"}
    [] msg = MsgQuotaExceeded -> {"quota exceeded"}
    [] msg = MsgRateLimitText -> {"rate", "limit"}
    [] OTHER -> {}

\* Python's  sub in error_msg
Contains(msg, sub) == sub \in Substrings(msg)

\* variant of WrapperIsQuota that recognises no message
WrapperIsQuota_Never(msg) == FALSE

\* the wrapper's test: "insufficient_quota" in error_msg or "rate_limit" in error_msg
WrapperIsQuota(msg) ==
  Contains(msg, "insufficient_quota") \/ Contains(msg, "rate_limit")

\* variant of StageIsQuota that recognises no message
StageIsQuota_Never(msg) == FALSE

\* the stages' test: any(err in error_msg for err in quota_errors)
StageIsQuota(msg) ==
  \E err \in {"insufficient_quota", "quota exceeded", "rate_limit"} : Contains(msg, err)

\* the stages' second test: "rate" in error_msg and "limit" in error_msg
StageIsRateLimit(msg) == Contains(msg, "rate") /\ Contains(msg, "limit")

\* the messages with which a provider reports a quota or a rate limit
ProviderQuotaFaults ==
  {MsgInsufficientQuota, MsgRateLimitCode, MsgQuotaExceeded, MsgRateLimitText}

\* ------------------------------------------------------------------------
\* Text values: what kind of text, and the iteration of the story it comes from
\* ------------------------------------------------------------------------
Text(kind, of) == [kind |-> kind, of |-> of]

\* the default "" of the State fields
EmptyText == Text("empty", 0)

\* the fixed texts returned when a generator gives up
StoryPlaceholder == Text("story_placeholder", 0)
ContentsPlaceholder == Text("contents_placeholder", 0)
CodePlaceholder == Text("code_placeholder", 0)

\* variant of ErrorTemplate in which the except clause returns ""
ErrorTemplate_Empty == Text("empty", 0)

\* the fixed code PPTXAgent.run returns when the graph raised
ErrorTemplate == Text("error_template", 0)

\* the reason StoryEvaluator.run puts in the judgement it substitutes
EvaluatorErrorReason == "API error, regenerate the story"

\* reasons the service returns in a structured Judgement (default "")
LLMReasons == {"", "llm rationale"}

\* Judgement(judge=..., reason=...)
Judgement(j, r) == [judge |-> j, reason |-> r]

\* 2 ** attempt
RECURSIVE Pow2(_)
Pow2(n) == IF n = 0 THEN 1 ELSE 2 * Pow2(n - 1)

\* time.sleep(2 ** attempt) made by the wrapper or by a stage
Sleep(by, a) == [by |-> by, attempt |-> a, delay |-> Pow2(a)]

\* no time.sleep was made
NoSleep == [by |-> "none", attempt |-> 0, delay |-> 0]

\* ------------------------------------------------------------------------
\* Generated code as app.py sees it: the body of the text, whether it sits in
\* a ```python fence, and whether the sanitizer has been applied to it
\* ------------------------------------------------------------------------
Code(body, fenced, safe) == [body |-> body, fenced |-> fenced, safe |-> safe]

\* no code: the variable is not bound, or the file was not written
NoCode == Code("none", FALSE, FALSE)

\* bodies of the code the service returns: one that draws text boxes only, and
\* three that read a placeholder index the slide layout does not have
BodyTextBoxes == "slide.shapes.add_textbox(...)"
BodyLiteralIdx == "slide.placeholders[12].text = ..."
BodyOtherName == "s.placeholders[12].text = ..."
BodyHighIdx == "slide.placeholders[16].text = ..."

\* body of the fixed code PPTXCodeGenerator.run returns on its last attempt
BodyPlaceholderCode == "prs = Presentation('workspace/input/template.pptx') ..."

\* body of the fixed code PPTXAgent.run returns when the graph raised
BodyErrorTemplate == "prs = Presentation() ..."

\* body of a create_pptx_safe.py that an earlier run left in workspace/output
BodyEarlierRun == "code of an earlier run"

\* body of code that walks over slide.placeholders without a subscript
BodyMention == "for ph in slide.placeholders: ..."

\* a piece of code text, as far as the string tests of the handler tell pieces
\* apart: its sort, the name it is applied to (or its own text), an index
Tok(t, recv, arg) == [t |-> t, recv |-> recv, arg |-> arg]

\* an import line
ImportLine(line) == Tok("import", line, 0)

\* var.placeholders[idx]; VarIdx stands for an index that is not a literal
Subscript(var, idx) == Tok("subscript", var, idx)
VarIdx == -1

\* var.placeholders with no subscript after it
Mention(var) == Tok("mention", var, 0)

\* recv.fill.fore_color.rgb = ...; recv is "" for a bare fill.fore_color.rgb = ...
FillAssign(recv) == Tok("fill_assign", recv, 0)

\* var.shapes.add_picture(...)
AddPicture(var) == Tok("add_picture", var, 0)

\* get_placeholder_safe(slide, idx)
GuardedPlaceholder(idx) == Tok("get_placeholder_safe", "slide", idx)

\* set_fill_color_safe(recv.fill, ...)
GuardedFill(recv) == Tok("set_fill_color_safe", recv, 0)

\* add_image_safe(slide, ...)
GuardedPicture == Tok("add_image_safe", "slide", 0)

\* the def line of a helper
Def(name) == Tok("def", name, 0)

\* any other statement
Statement(s) == Tok("statement", s, 0)

\* the text of a body
BodyTokens(body) ==
  CASE body = BodyTextBoxes ->
         <<ImportLine("from pptx import Presentation"), Statement("slide.shapes.add_textbox(...)")>>
    [] body = BodyLiteralIdx ->
         <<ImportLine("from pptx import Presentation"), Subscript("slide", 12),
           FillAssign("shape"), AddPicture("slide")>>
    [] body = BodyOtherName ->
         <<ImportLine("from pptx import Presentation"), Subscript("s", 12), FillAssign("shape"),
           AddPicture("s")>>
    [] body = BodyHighIdx ->
         <<ImportLine("from pptx import Presentation"), Subscript("slide", 16)>>
    [] body = BodyMention ->
         <<ImportLine("from pptx import Presentation"), Mention("slide"),
           Statement("slide.shapes.add_textbox(...)")>>
    [] body = BodyPlaceholderCode ->
         <<ImportLine("from pptx import Presentation"), ImportLine("from pptx.util import Inches, Pt"),
           ImportLine("from pptx.enum.text import PP_ALIGN"),
           Subscript("slide", 10), Subscript("slide", 11), Subscript("slide", 12), Subscript("slide", 1)>>
    [] body = BodyErrorTemplate ->
         <<ImportLine("from pptx import Presentation"), ImportLine("from pptx.util import Inches, Pt"),
           Subscript("slide", 1)>>
    [] OTHER -> <<Statement(body)>>

\* a subscript of .placeholders in a body: the variable it is applied to and
\* the literal index
Access(var, idx) == [var |-> var, idx |-> idx]

\* the .placeholders[...] subscripts that occur in a body
Accesses(body) ==
  LET text == BodyTokens(body)
  IN {Access(text[i].recv, text[i].arg) : i \in {j \in DOMAIN text : text[j].t = "subscript"}}

\* the subscripts of a body that name an index the slide does not have
MissingAccesses(body) ==
  IF body \in {BodyLiteralIdx, BodyOtherName, BodyHighIdx} THEN Accesses(body) ELSE {}

\* the texts PPTXCodeGenerator can get from the service: the examples of the
\* prompt are ```python blocks, the service may answer with or without a fence
ServiceCodes ==
  {Code(b, TRUE, FALSE) :
     b \in {BodyTextBoxes, BodyLiteralIdx, BodyOtherName, BodyHighIdx, BodyMention}}
    \cup {Code(BodyTextBoxes, FALSE, FALSE)}

\* the strings a Text value of the run stands for
CodesOf(text) ==
  CASE text.kind = "code" -> ServiceCodes
    [] text.kind = "code_placeholder" -> {Code(BodyPlaceholderCode, FALSE, FALSE)}
    [] text.kind = "error_template" -> {Code(BodyErrorTemplate, FALSE, FALSE)}
    [] OTHER -> {NoCode}

\* every string agent.run can return
RunTexts ==
  ServiceCodes \cup {Code(BodyPlaceholderCode, FALSE, FALSE), Code(BodyErrorTemplate, FALSE, FALSE)}

\* "```python" in final_output
HasFence(code) == code.fenced

\* final_output.split("```python\n")[-1].split("```")[0]
ExtractCode(code) == [code EXCEPT !.fenced = FALSE]

\* required_imports
required_imports ==
  <<ImportLine("import os"), ImportLine("from pptx.util import Inches, Pt"),
    ImportLine("from pptx.enum.text import PP_ALIGN"),
    ImportLine("from pptx.dml.color import RGBColor"),
    ImportLine("from pptx.enum.shapes import MSO_SHAPE")>>

\* safe_placeholder_code: the five imports and the three helpers, whose bodies
\* assign fill.fore_color.rgb, call slide.shapes.add_picture and read
\* slide.placeholders[idx]
safe_placeholder_code ==
  required_imports \o
  <<Def("set_fill_color_safe"), FillAssign(""), FillAssign(""),
    Def("add_image_safe"), AddPicture("slide"),
    Def("get_placeholder_safe"), Subscript("slide", VarIdx),
    Statement("slide.shapes.add_textbox(...)")>>

\* the pieces of a text
Pieces(text) == {text[i] : i \in DOMAIN text}

\* "placeholder" in text
InPlaceholder(text) ==
  \E k \in Pieces(text) :
    \/ k.t \in {"subscript", "mention", "get_placeholder_safe"}
    \/ k = Def("get_placeholder_safe")

\* "slide.placeholders" in text
InSlidePlaceholders(text) ==
  \E k \in Pieces(text) : k.t \in {"subscript", "mention"} /\ k.recv = "slide"

\* "placeholder" in final_output and "slide.placeholders" in final_output
TextTrigger(text) == InPlaceholder(text) /\ InSlidePlaceholders(text)

\* the end of the first import section: modified_code.find("\n\n",
\* modified_code.find("import")), 0 when the text has no import line
RECURSIVE SectionEnd(_, _)
SectionEnd(text, i) ==
  IF i > Len(text) THEN Len(text)
  ELSE IF text[i].t = "import" THEN SectionEnd(text, i + 1)
  ELSE i - 1

import_section_end(text) ==
  IF \E i \in DOMAIN text : text[i].t = "import"
  THEN SectionEnd(text, (CHOOSE i \in DOMAIN text :
                           text[i].t = "import" /\ \A j \in 1..(i - 1) : text[j].t # "import") + 1)
  ELSE 0

\* the loop over required_imports: each line the text lacks is put at the end
\* of the import section, which then ends behind it, or in front when there is
\* no import section, which then is that line: the lines the text lacks end
\* up in their order at import_section_end of the text
AddImports(text) ==
  SubSeq(text, 1, import_section_end(text))
    \o SelectSeq(required_imports, LAMBDA line : line \notin Pieces(text))
    \o SubSeq(text, import_section_end(text) + 1, Len(text))

\* the replace calls of the sanitizer: slide.placeholders[0], [1], [11] and
\* range(2, 16) become get_placeholder_safe(slide, idx)
Rewritten(a) == a.var = "slide" /\ a.idx \in 0..15

\* the replace and re.sub calls on one piece: slide.shapes.add_picture(, the
\* slide.placeholders[idx] of Rewritten, and every fill.fore_color.rgb = ...
Rewrite(k) ==
  CASE k.t = "add_picture" /\ k.recv = "slide" -> GuardedPicture
    [] k.t = "subscript" /\ Rewritten(Access(k.recv, k.arg)) -> GuardedPlaceholder(k.arg)
    [] k.t = "fill_assign" -> GuardedFill(k.recv)
    [] OTHER -> k

\* modified_code as create_pptx_safe.py gets it: under the trigger, imports
\* added, safe_placeholder_code put in front, and the replacements made on the
\* whole text, the helpers included; final_output itself without the trigger
SanitizeText(text) ==
  IF TextTrigger(text)
  THEN LET whole == safe_placeholder_code \o AddImports(text)
       IN [i \in 1..Len(whole) |-> Rewrite(whole[i])]
  ELSE text

\* the code value of the sanitized text
Sanitize(code) == [code EXCEPT !.safe = TRUE]

\* the text a code value stands for
TextOf(code) ==
  IF code.safe THEN SanitizeText(BodyTokens(code.body)) ELSE BodyTokens(code.body)

\* the test of the handler on final_output
SanitizerTrigger(code) == TextTrigger(TextOf(code))

\* the subscripts of a missing index that code still makes unguarded
UnguardedMissing(code) ==
  LET left == Pieces(TextOf(code))
  IN {a \in MissingAccesses(code.body) : Subscript(a.var, a.idx) \in left}

\* outcomes of exec on generated code: a new .pptx saved in workspace/output;
\* no fault but no new .pptx there; KeyError "no placeholder on this slide with
\* idx == n"; another KeyError; any other Exception
ExecResults == {"saved", "no_file", "missing_placeholder", "key_error", "fault"}

\* what exec(code) can do: an unguarded subscript of a missing index raises the
\* KeyError of python-pptx; get_placeholder_safe catches it; the code of an
\* earlier run can do anything
ExecOutcomes(code) ==
  IF code.body = BodyEarlierRun THEN ExecResults
  ELSE IF UnguardedMissing(code) # {} THEN {"missing_placeholder"}
  ELSE ExecResults \ {"missing_placeholder"}

\* the keys of exec_globals built before the first exec
Tier1Globals ==
  {"Inches", "Pt", "PP_ALIGN", "RGBColor", "os", "datetime", "random", "Presentation",
   "MSO_SHAPE", "OPENAI_API_KEY", "GOOGLE_API_KEY", "add_image_safe", "set_fill_color_safe",
   "ChatOpenAI", "OpenAI", "openai_llm", "openai_chat", "_set_fill_color"}

\* the keys of exec_globals built in the KeyError handler
Tier2Globals ==
  {"Inches", "Pt", "PP_ALIGN", "RGBColor", "os", "datetime", "random", "Presentation",
   "MSO_SHAPE", "OPENAI_API_KEY", "GOOGLE_API_KEY", "add_image_safe", "set_fill_color_safe",
   "ChatOpenAI", "OpenAI", "openai_llm", "openai_chat", "_set_fill_color"}

\* the names the generated code binds at top level: they land in exec_locals
CodeBindings == {"prs", "slide"}

\* the .pptx files of workspace/output: the one a tier of this run creates, and
\* one an earlier run left there
FileOf(tier) == [by |-> "this run", tier |-> tier]
EarlierFile == [by |-> "earlier run", tier |-> 0]
NoFile == [by |-> "nobody", tier |-> 0]

\* strftime("%Y%m%d_%H%M%S") of the clock: the seconds in which sessions of the
\* page name their file, counted from the one in which this session does
LastSecond == 1
Seconds == 0..LastSecond

\* random.randint(1000, 9999), cut down to the values up to SuffixMax
SuffixMax == 1001
Suffixes == 1000..SuffixMax

\* a path in workspace/output
Path(name, timestamp, random_suffix) ==
  [name |-> name, timestamp |-> timestamp, random_suffix |-> random_suffix]
NoPath == Path("", -1, 0)

\* f"Safe_Presentation_{timestamp}{random_suffix}.pptx" in workspace/output
SafeName(timestamp, random_suffix) == Path("Safe_Presentation", timestamp, random_suffix)

\* the path generated code saves to: a literal of its text, the same whenever
\* the same text is executed
CodePath(code) == Path(code.body, -1, 0)

\* the paths generate_safe_presentation can name in another session of the page
SessionPaths == {SafeName(t, r) : t \in Seconds, r \in Suffixes}

\* one entry of tier_log
Attempt(tier, code, ns, out) == [tier |-> tier, code |-> code, ns |-> ns, out |-> out]

\* ------------------------------------------------------------------------
\* State
\* ------------------------------------------------------------------------
VARIABLES
  use_fallback,    \* PPTXAgent.use_fallback
  model_name,      \* primary_llm.model_name
  fallback_llm,    \* PPTXAgent.fallback_llm: None or "fallback"
  max_retries,     \* PPTXAgent.max_retries
  llm,             \* component -> the client its .llm is bound to
  orig_llm,        \* the wrapper's local dict of saved bindings
  state,           \* the State record threaded through the graph
  node,            \* the graph node that runs (or ran last)
  pc,              \* position of the run
  attempt,         \* loop variable of the wrapper's retry loop
  last_error,      \* the wrapper's last_error
  wmode,           \* "primary": in the retry loop; "fallback": in the fallback call
  stage_attempt,   \* loop variable of the generator's own retry loop
  ret,             \* text a generator returned to the wrapper
  judgement,       \* Judgement the evaluator returned to the wrapper
  exc,             \* fault in flight: raised by the stage, or by the wrapper
  result,          \* what PPTXAgent.run returned
  calls,           \* history: func invocations of this wrapper call, per mode
  primary_fault,   \* history: the fault the wrapper's retry loop ended with
  last_sleep,      \* history: the time.sleep made while handling the latest fault
  last_outcome,    \* history: outcome of the latest service call of this wrapper call
  quota_from,      \* history: providers that reported a quota-class fault in this wrapper call
  ret_from,        \* history: the provider whose call produced the value of this wrapper call
  verdicts,        \* history: judge of every evaluation of the run, in order
  entered,         \* history: how often each node was entered in the run
  stage_raised,    \* history: some stage.run call of the run raised
  all_transient,   \* history: every service call of the run so far failed with MsgTransient
  final_output,    \* app.py: final_output, the text run returned, then the extracted code
  modified_code,   \* app.py: modified_code, the code tier 1 executes
  safe_file,       \* workspace/output/create_pptx_safe.py as written by this run
  safe_code,       \* app.py: safe_code, the code tier 2 read from create_pptx_safe.py
  exec_globals,    \* app.py: exec_globals, the names of the dict handed to exec
  exec_locals,     \* app.py: exec_locals, the names generated code has bound
  generation_successful, \* app.py: generation_successful
  output_filename, \* app.py: output_filename
  created,         \* the .pptx files this run has created in workspace/output
  shown,           \* the messages and widgets the page shows for this run
  tier_log,         \* history: the tiers attempted, with code, namespace and outcome
  output_path,     \* the path of the .pptx this session saved
  other_path       \* the path of the .pptx another session of the page saved

\* the variables of the app around the agent
app_vars ==
  <<final_output, modified_code, safe_file, safe_code, exec_globals, exec_locals,
    generation_successful, output_filename, created, shown, tier_log, output_path, other_path>>

vars ==
  <<use_fallback, model_name, fallback_llm, max_retries, llm, orig_llm, state, node, pc,
    attempt, last_error, wmode, stage_attempt, ret, judgement, exc, result, calls, primary_fault,
    last_sleep, last_outcome, quota_from, ret_from, verdicts, entered, stage_raised,
    all_transient, app_vars>>

config == <<use_fallback, model_name, fallback_llm, max_retries>>

\* State(user_request=...): every other field at its default
InitialState(req) ==
  [user_request |-> req, story |-> EmptyText, iteration |-> 0, current_judge |-> FALSE,
   judgement_reason |-> "", slide_contents |-> EmptyText, slide_gen_code |-> EmptyText]

\* bindings made by PPTXAgent.__init__: StoryEvaluator wraps the client with
\* with_structured_output(Judgement), the generators keep it as it is
InitialBindings ==
  [c \in Components |-> IF c = "story_evaluator" THEN "primary.structured" ELSE "primary"]

\* the provider a binding sends its calls to
ProviderOf(b) == IF b = "fallback" THEN "fallback" ELSE "primary"

\* the if of __init__: a fallback client is built only when use_fallback and the
\* primary model is not the fallback model; building it may fail (fb_ok = FALSE)
FallbackFor(uf, mn, fb_ok) ==
  IF uf /\ mn # FallbackModel /\ fb_ok THEN "fallback" ELSE None

\* variant of FallbackAvailable that leaves out  self.fallback_llm is not None
FallbackAvailable_IgnoresNone == use_fallback

\* the if of the wrapper after its loop
FallbackAvailable == use_fallback /\ fallback_llm # None

Init ==
  /\ use_fallback \in BOOLEAN
  /\ model_name \in ModelNames
  /\ \E fb_ok \in BOOLEAN : fallback_llm = FallbackFor(use_fallback, model_name, fb_ok)
  /\ max_retries \in 1..MaxRetriesBound
  /\ llm = InitialBindings
  /\ orig_llm = InitialBindings
  /\ \E req \in Requests : state = InitialState(req)
  /\ node = "generate_story"
  /\ pc = "node"
  /\ attempt = 0
  /\ last_error = None
  /\ wmode = "primary"
  /\ stage_attempt = 0
  /\ ret = EmptyText
  /\ judgement = Judgement(FALSE, "")
  /\ exc = None
  /\ result = EmptyText
  /\ calls = [primary |-> 0, fallback |-> 0]
  /\ primary_fault = None
  /\ last_sleep = NoSleep
  /\ last_outcome = None
  /\ quota_from = {}
  /\ ret_from = "none"
  /\ verdicts = <<>>
  /\ entered = [n \in GraphNodes |-> 0]
  /\ stage_raised = FALSE
  /\ all_transient = TRUE
  /\ final_output = NoCode
  /\ modified_code = NoCode
  /\ safe_file = NoCode
  /\ safe_code = NoCode
  /\ exec_globals = {}
  /\ exec_locals = {}
  /\ generation_successful = FALSE
  /\ output_filename = NoFile
  /\ created = {}
  /\ shown = {}
  /\ tier_log = <<>>
  /\ output_path = NoPath
  /\ other_path = NoPath

\* ------------------------------------------------------------------------
\* The wrapper is entered: a node of the graph starts
\* ------------------------------------------------------------------------

\* a node closure calls _with_retries_and_fallback(func): last_error = None,
\* the loop starts with attempt = 0 and calls func()
EnterNode ==
  /\ pc = "node"
  /\ node \in GraphNodes
  /\ pc' = "stage"
  /\ calls' = [calls EXCEPT !.primary = 1]
  /\ entered' = [entered EXCEPT ![node] = @ + 1]
  /\ UNCHANGED <<app_vars, all_transient, config, llm, orig_llm, state, node, attempt, last_error, wmode,
                 stage_attempt, ret, judgement, exc, result, primary_fault, last_sleep, last_outcome,
                 quota_from, ret_from, verdicts, stage_raised>>

\* ------------------------------------------------------------------------
\* The stages
\* ------------------------------------------------------------------------

\* the text the service returns to a generator
Produced(n) ==
  CASE n = "generate_story" -> Text("story", state.iteration + 1)
    [] n = "generate_slide_contents" -> Text("contents", state.story.of)
    [] n = "generate_pptx_code" -> Text("code", state.slide_contents.of)

\* variant of PlaceholderOf in which the code generator gives back the default ""
PlaceholderOf_EmptyCode(n) ==
  CASE n = "generate_story" -> StoryPlaceholder
    [] n = "generate_slide_contents" -> ContentsPlaceholder
    [] n = "generate_pptx_code" -> EmptyText

\* the fixed text a generator returns on its last attempt
PlaceholderOf(n) ==
  CASE n = "generate_story" -> StoryPlaceholder
    [] n = "generate_slide_contents" -> ContentsPlaceholder
    [] n = "generate_pptx_code" -> CodePlaceholder

\* bookkeeping of one service call to provider prov with outcome out
Called(prov, out) ==
  /\ last_outcome' = out
  /\ quota_from' = IF out \in ProviderQuotaFaults THEN quota_from \cup {prov} ELSE quota_from
  /\ all_transient' = (all_transient /\ out = MsgTransient)

\* one iteration of the for loop of StoryGenerator.run, SlideContentsGenerator.run
\* or PPTXCodeGenerator.run: chain.invoke with outcome out, and its handling
GeneratorCall(out) ==
  /\ pc = "stage"
  /\ node \in GraphNodes \ {"evaluate_story"}
  /\ LET prov == ProviderOf(llm[ComponentOf(node)]) IN
     /\ Called(prov, out)
     /\ IF out = "ok"
        THEN \* return result
             /\ ret' = Produced(node)
             /\ ret_from' = prov
             /\ pc' = "returned"
             /\ last_sleep' = NoSleep
             /\ UNCHANGED <<exc, stage_attempt, stage_raised>>
        ELSE IF StageIsQuota(out)
        THEN \* raise e
             /\ exc' = out
             /\ pc' = "raised"
             /\ stage_raised' = TRUE
             /\ last_sleep' = NoSleep
             /\ UNCHANGED <<ret, ret_from, stage_attempt>>
        ELSE IF StageIsRateLimit(out)
        THEN \* time.sleep(2 ** attempt); continue; after the loop raise last_error
             /\ last_sleep' = Sleep("stage", stage_attempt)
             /\ IF stage_attempt < StageMaxRetries
                THEN /\ stage_attempt' = stage_attempt + 1
                     /\ UNCHANGED <<pc, exc, stage_raised>>
                ELSE /\ exc' = out
                     /\ pc' = "raised"
                     /\ stage_raised' = TRUE
                     /\ UNCHANGED stage_attempt
             /\ UNCHANGED <<ret, ret_from>>
        ELSE IF stage_attempt = StageMaxRetries
        THEN \* return the placeholder
             /\ ret' = PlaceholderOf(node)
             /\ ret_from' = "none"
             /\ pc' = "returned"
             /\ last_sleep' = NoSleep
             /\ UNCHANGED <<exc, stage_attempt, stage_raised>>
        ELSE \* next attempt, no sleep
             /\ stage_attempt' = stage_attempt + 1
             /\ last_sleep' = NoSleep
             /\ UNCHANGED <<pc, exc, ret, ret_from, stage_raised>>
  /\ UNCHANGED <<app_vars, config, llm, orig_llm, state, node, attempt, last_error, wmode, judgement,
                 result, calls, primary_fault, verdicts, entered>>

\* variant of SubstitutedJudgement built with the default reason
SubstitutedJudgement_NoReason == Judgement(FALSE, "")

\* the Judgement StoryEvaluator.run returns when chain.invoke raised
SubstitutedJudgement == Judgement(FALSE, EvaluatorErrorReason)

\* StoryEvaluator.run: one chain.invoke inside try/except Exception
EvaluatorCall(out, j, r) ==
  /\ pc = "stage"
  /\ node = "evaluate_story"
  /\ Called(ProviderOf(llm["story_evaluator"]), out)
  /\ judgement' = IF out = "ok" THEN Judgement(j, r) ELSE SubstitutedJudgement
  /\ pc' = "returned"
  /\ ret_from' = ProviderOf(llm["story_evaluator"])
  /\ last_sleep' = NoSleep
  /\ UNCHANGED <<app_vars, config, llm, orig_llm, state, node, attempt, last_error, wmode,
                 stage_attempt, ret, exc, result, calls, primary_fault, verdicts, entered,
                 stage_raised>>

\* ------------------------------------------------------------------------
\* _with_retries_and_fallback
\* ------------------------------------------------------------------------

\* the first for loop of the wrapper over the component names: save and swap
SwappedToFallback == [c \in Components |-> fallback_llm]

\* variant of LoopGoesOn whose loop makes one attempt more
LoopGoesOn_OneMore == ~WrapperIsQuota(exc) /\ attempt + 1 <= max_retries

\* for attempt in range(self.max_retries), left by the break on a quota message
LoopGoesOn == ~WrapperIsQuota(exc) /\ attempt + 1 < max_retries

\* the except branch of the retry loop, up to the next call of func or the raise:
\* last_error = e; break on a quota message, else sleep 2 ** attempt and go on;
\* after the loop the fallback call if available, else raise last_error
WrapperCatch ==
  /\ pc = "raised"
  /\ wmode = "primary"
  /\ last_error' = exc
  /\ last_sleep' = IF WrapperIsQuota(exc) THEN NoSleep ELSE Sleep("wrapper", attempt)
  /\ IF LoopGoesOn
     THEN \* next iteration of the loop: func() again
          /\ attempt' = attempt + 1
          /\ calls' = [calls EXCEPT !.primary = @ + 1]
          /\ stage_attempt' = 0
          /\ exc' = None
          /\ pc' = "stage"
          /\ UNCHANGED <<llm, orig_llm, wmode, primary_fault>>
     ELSE IF FallbackAvailable
     THEN \* swap every component to the fallback LLM and call func() once
          /\ orig_llm' = llm
          /\ llm' = SwappedToFallback
          /\ wmode' = "fallback"
          /\ calls' = [calls EXCEPT !.fallback = @ + 1]
          /\ stage_attempt' = 0
          /\ exc' = None
          /\ pc' = "stage"
          /\ primary_fault' = exc
          /\ UNCHANGED attempt
     ELSE \* raise last_error: the node, and with it graph.invoke, raises
          /\ exc' = last_error'
          /\ pc' = "aborted"
          /\ primary_fault' = exc
          /\ UNCHANGED <<llm, orig_llm, wmode, calls, stage_attempt, attempt>>
  /\ UNCHANGED <<app_vars, all_transient, config, state, node, ret, judgement, result, last_outcome, quota_from,
                 ret_from, verdicts, entered, stage_raised>>

\* variant of WrapperFallbackCatch that forgets last_error = e in the except of
\* the fallback call, and so raises the fault of the primary
WrapperFallbackCatch_KeepsFirst ==
  /\ pc = "raised"
  /\ wmode = "fallback"
  /\ last_error' = last_error
  /\ llm' = orig_llm
  /\ exc' = last_error'
  /\ pc' = "aborted"
  /\ UNCHANGED <<app_vars, all_transient, config, orig_llm, state, node, attempt, wmode, stage_attempt, ret,
                 judgement, result, calls, primary_fault, last_sleep, last_outcome,
                 quota_from, ret_from, verdicts, entered, stage_raised>>

\* the except and finally of the fallback call: last_error = e, the saved
\* bindings are restored, raise last_error
WrapperFallbackCatch ==
  /\ pc = "raised"
  /\ wmode = "fallback"
  /\ last_error' = exc
  /\ llm' = orig_llm
  /\ exc' = last_error'
  /\ pc' = "aborted"
  /\ UNCHANGED <<app_vars, all_transient, config, orig_llm, state, node, attempt, wmode, stage_attempt, ret,
                 judgement, result, calls, primary_fault, last_sleep, last_outcome,
                 quota_from, ret_from, verdicts, entered, stage_raised>>

\* variant of AfterReturn without the finally of the fallback call
AfterReturn_KeepsSwap == llm

\* the bindings after the wrapper returned func()'s value: the finally of the
\* fallback call restores them
AfterReturn == IF wmode = "fallback" THEN orig_llm ELSE llm

\* return func(): the wrapper's frame, and the stage's, are gone
WrapperReturns ==
  /\ llm' = AfterReturn
  /\ attempt' = 0
  /\ last_error' = None
  /\ wmode' = "primary"
  /\ stage_attempt' = 0
  /\ exc' = None
  /\ calls' = [primary |-> 0, fallback |-> 0]
  /\ primary_fault' = None
  /\ last_sleep' = NoSleep
  /\ last_outcome' = None
  /\ quota_from' = {}
  /\ ret_from' = "none"

\* ------------------------------------------------------------------------
\* The node updates and the edges of the graph
\* ------------------------------------------------------------------------

\* variants of ShouldRegenerate: <= for <, no test of the verdict, verdict not negated
ShouldRegenerate_OffByOne(st) == ~st.current_judge /\ st.iteration <= MaxIterations

ShouldRegenerate_IgnoresJudge(st) == st.iteration < MaxIterations

ShouldRegenerate_Inverted(st) == st.current_judge /\ st.iteration < MaxIterations

\* the lambda of add_conditional_edges
ShouldRegenerate(st) == ~st.current_judge /\ st.iteration < MaxIterations

\* variant of AfterEvaluate whose second target is generate_pptx_code
AfterEvaluate_SkipsStructure(st) ==
  IF ShouldRegenerate(st) THEN "generate_story" ELSE "generate_pptx_code"

\* the conditional edge after evaluate_story
AfterEvaluate(st) ==
  IF ShouldRegenerate(st) THEN "generate_story" ELSE "generate_slide_contents"

\* the partial updates the node functions return, merged into the state
MergeStory(st, new_story) == [st EXCEPT !.story = new_story, !.iteration = @ + 1]

\* variant of MergeJudgement that also clears the story it judged
MergeJudgement_ClearsStory(st, j) ==
  [st EXCEPT !.current_judge = j.judge, !.judgement_reason = j.reason, !.story = EmptyText]

MergeJudgement(st, j) ==
  [st EXCEPT !.current_judge = j.judge, !.judgement_reason = j.reason]

\* variant of MergeContents that also rewrites user_request
MergeContents_RewritesRequest(st, contents) ==
  [st EXCEPT !.slide_contents = contents, !.user_request = "rewritten"]

MergeContents(st, contents) == [st EXCEPT !.slide_contents = contents]

MergeCode(st, pptx_code) == [st EXCEPT !.slide_gen_code = pptx_code]

\* _generate_story returns {"story": new_story, "iteration": state.iteration + 1};
\* edge generate_story -> evaluate_story
StoryUpdate ==
  /\ pc = "returned"
  /\ node = "generate_story"
  /\ state' = MergeStory(state, ret)
  /\ node' = "evaluate_story"
  /\ pc' = "node"
  /\ WrapperReturns
  /\ UNCHANGED <<app_vars, all_transient, config, orig_llm, ret, judgement, result, verdicts, entered, stage_raised>>

\* _evaluate_story returns {"current_judge": ..., "judgement_reason": ...};
\* then the conditional edge
EvaluateUpdate ==
  /\ pc = "returned"
  /\ node = "evaluate_story"
  /\ state' = MergeJudgement(state, judgement)
  /\ node' = AfterEvaluate(state')
  /\ pc' = "node"
  /\ WrapperReturns
  /\ verdicts' = Append(verdicts, judgement.judge)
  /\ UNCHANGED <<app_vars, all_transient, config, orig_llm, ret, judgement, result, entered, stage_raised>>

\* _generate_slide_contents returns {"slide_contents": ...};
\* edge generate_slide_contents -> generate_pptx_code
ContentsUpdate ==
  /\ pc = "returned"
  /\ node = "generate_slide_contents"
  /\ state' = MergeContents(state, ret)
  /\ node' = "generate_pptx_code"
  /\ pc' = "node"
  /\ WrapperReturns
  /\ UNCHANGED <<app_vars, all_transient, config, orig_llm, ret, judgement, result, verdicts, entered, stage_raised>>

\* _generate_pptx_code returns {"slide_gen_code": ...}; edge generate_pptx_code -> END
CodeUpdate ==
  /\ pc = "returned"
  /\ node = "generate_pptx_code"
  /\ state' = MergeCode(state, ret)
  /\ node' = "END"
  /\ pc' = "done"
  /\ WrapperReturns
  /\ UNCHANGED <<app_vars, all_transient, config, orig_llm, ret, judgement, result, verdicts, entered, stage_raised>>

\* ------------------------------------------------------------------------
\* PPTXAgent.run
\* ------------------------------------------------------------------------

\* graph.invoke returned: return final_state["slide_gen_code"]
RunReturn ==
  /\ pc = "done"
  /\ result' = state.slide_gen_code
  /\ pc' = "exit"
  /\ UNCHANGED <<app_vars, all_transient, config, llm, orig_llm, state, node, attempt, last_error, wmode,
                 stage_attempt, ret, judgement, exc, calls, primary_fault, last_sleep, last_outcome,
                 quota_from, ret_from, verdicts, entered, stage_raised>>

\* variant of RunExcept whose except clause catches only the faults of a fallback call
RunExcept_OnlyFallback ==
  /\ pc = "aborted"
  /\ wmode = "fallback"
  /\ result' = ErrorTemplate
  /\ pc' = "exit"
  /\ UNCHANGED <<app_vars, all_transient, config, llm, orig_llm, state, node, attempt, last_error, wmode,
                 stage_attempt, ret, judgement, exc, calls, primary_fault, last_sleep, last_outcome,
                 quota_from, ret_from, verdicts, entered, stage_raised>>

\* graph.invoke raised: except Exception, return the built-in error code
RunExcept ==
  /\ pc = "aborted"
  /\ result' = ErrorTemplate
  /\ pc' = "exit"
  /\ UNCHANGED <<app_vars, all_transient, config, llm, orig_llm, state, node, attempt, last_error, wmode,
                 stage_attempt, ret, judgement, exc, calls, primary_fault, last_sleep, last_outcome,
                 quota_from, ret_from, verdicts, entered, stage_raised>>

\* ------------------------------------------------------------------------
\* app.py, main: what the page does with the text agent.run returned.
\* The agent is the one PPTXAgent.__init__ builds (Init). app.py:464 calls the
\* constructor with the keywords api_provider and fallback_model, which
\* __init__ does not declare; the steps below are those of the code after the
\* call of agent.run, on every text run can return.
\* ------------------------------------------------------------------------

\* agent.run has returned: the frames of run, of the graph and of the wrapper
\* are gone, the agent keeps its configuration and its bindings
RunIsOver ==
  /\ WrapperReturns
  /\ orig_llm' = llm'
  /\ ret' = EmptyText
  /\ judgement' = Judgement(FALSE, "")
  /\ verdicts' = <<>>
  /\ stage_raised' = FALSE

\* final_output = agent.run(...); the if on the code fence; inside it the
\* extraction, modified_code = final_output, and the sanitizer when its
\* trigger holds, which also writes create_pptx_safe.py
AppGate(text) ==
  /\ pc = "exit"
  /\ text \in CodesOf(result)
  /\ RunIsOver
  /\ IF HasFence(text)
     THEN /\ final_output' = ExtractCode(text)
          /\ IF SanitizerTrigger(final_output')
             THEN /\ modified_code' = Sanitize(final_output')
                  /\ safe_file' = Sanitize(final_output')
                  /\ shown' = {"info: safe version written"}
             ELSE /\ modified_code' = final_output'
                  /\ safe_file' = NoCode
                  /\ shown' = {}
          /\ pc' = "tier1"
     ELSE \* nothing of the if block runs, and there is no else
          /\ final_output' = text
          /\ pc' = "app_end"
          /\ UNCHANGED <<modified_code, safe_file, shown>>
  /\ generation_successful' = FALSE
  /\ output_filename' = NoFile
  /\ UNCHANGED <<config, state, node, result, entered, all_transient, safe_code,
                 exec_globals, exec_locals, created, tier_log, output_path, other_path>>

\* lines 762-771 and 891-900: the file the page takes as the result after an
\* exec that returned: the new file when the code saved one in
\* workspace/output, else the newest .pptx there, if any
DetectedFile(tier, out, earlier) ==
  IF out = "saved" THEN FileOf(tier)
  ELSE IF earlier THEN EarlierFile
  ELSE NoFile

\* variant of AfterTier1 in which the built-in generator runs whatever tier 1 did
AfterTier1_AlwaysBuiltin(out, safe_exists) ==
  IF out = "missing_placeholder" /\ safe_exists THEN "tier2" ELSE "tier3"

\* where the try statement around the first exec goes on: after the exec
\* returned, in the KeyError handler (with or without create_pptx_safe.py), in
\* the handler of any other Exception
AfterTier1(out, safe_exists) ==
  IF out \in {"saved", "no_file"} THEN "download"
  ELSE IF out = "missing_placeholder" THEN (IF safe_exists THEN "tier2" ELSE "tier3")
  ELSE "download"

\* tier 1: exec(modified_code, exec_globals, exec_locals) in the namespace
\* built before it, and the handling of its outcome up to the next exec, the
\* call of generate_safe_presentation or the end of the try statement.
\* earlier: a .pptx of an earlier run is in workspace/output;
\* stale: a create_pptx_safe.py of an earlier run is there
Tier1Exec(out, earlier, stale) ==
  /\ pc = "tier1"
  /\ out \in ExecOutcomes(modified_code)
  /\ exec_globals' = Tier1Globals
  /\ exec_locals' = CodeBindings
  /\ tier_log' = Append(tier_log, Attempt(1, modified_code, Tier1Globals, out))
  /\ created' = IF out = "saved" THEN created \cup {FileOf(1)} ELSE created
  /\ output_path' = IF out = "saved" THEN CodePath(modified_code) ELSE output_path
  /\ pc' = AfterTier1(out, safe_file # NoCode \/ stale)
  /\ IF out \in {"saved", "no_file"}
     THEN \* exec returned: generation_successful = True
          /\ generation_successful' = TRUE
          /\ output_filename' = DetectedFile(1, out, earlier)
          /\ shown' = shown \cup {"success: generated"}
          /\ UNCHANGED safe_code
     ELSE IF out = "missing_placeholder"
     THEN \* except KeyError, message with the idx text: the safe code is read
          \* if os.path.exists(safe_code_path)
          /\ shown' = shown \cup {"warning: placeholder error"}
          /\ safe_code' = IF safe_file # NoCode THEN safe_file
                          ELSE IF stale THEN Code(BodyEarlierRun, FALSE, TRUE)
                          ELSE safe_code
          /\ UNCHANGED <<generation_successful, output_filename>>
     ELSE IF out = "key_error"
     THEN \* except KeyError, other message: the handler does nothing
          /\ UNCHANGED <<generation_successful, output_filename, shown, safe_code>>
     ELSE \* except Exception as exec_e: st.error with the message
          /\ shown' = shown \cup {"error: code execution failed"}
          /\ UNCHANGED <<generation_successful, output_filename, safe_code>>
  /\ UNCHANGED <<config, llm, orig_llm, state, node, attempt, last_error, wmode,
                 stage_attempt, ret, judgement, exc, result, calls, primary_fault, last_sleep,
                 last_outcome, quota_from, ret_from, verdicts, entered, stage_raised,
                 all_transient, final_output, modified_code, safe_file, other_path>>

\* what exec(safe_code) can do in tier 2: the file this run wrote holds the
\* text tier 1 has just executed, so it fails as tier 1 did
Tier2Outcomes ==
  IF safe_code = modified_code
  THEN {tier_log[Len(tier_log)].out}
  ELSE ExecOutcomes(safe_code)

\* tier 2: exec(safe_code, exec_globals, exec_locals) on a new exec_globals and
\* a new exec_locals, and the handling of its outcome
Tier2Exec(out, earlier) ==
  /\ pc = "tier2"
  /\ out \in Tier2Outcomes
  /\ exec_globals' = Tier2Globals
  /\ exec_locals' = CodeBindings
  /\ tier_log' = Append(tier_log, Attempt(2, safe_code, Tier2Globals, out))
  /\ created' = IF out = "saved" THEN created \cup {FileOf(2)} ELSE created
  /\ output_path' = IF out = "saved" THEN CodePath(safe_code) ELSE output_path
  /\ IF out \in {"saved", "no_file"}
     THEN /\ generation_successful' = TRUE
          /\ output_filename' = DetectedFile(2, out, earlier)
          /\ shown' = shown \cup {"success: generated by safe code"}
          /\ pc' = "download"
     ELSE \* except ImportError / except Exception: st.error, then the built-in
          /\ shown' = shown \cup {"error: safe code failed"}
          /\ pc' = "tier3"
          /\ UNCHANGED <<generation_successful, output_filename>>
  /\ UNCHANGED <<config, llm, orig_llm, state, node, attempt, last_error, wmode,
                 stage_attempt, ret, judgement, exc, result, calls, primary_fault, last_sleep,
                 last_outcome, quota_from, ret_from, verdicts, entered, stage_raised,
                 all_transient, final_output, modified_code, safe_file, safe_code, other_path>>

\* tier 3: output_filename = generate_safe_presentation() inside try/except
\* Exception; saved tells whether prs.save went through, random_suffix is what
\* random.randint gave
Tier3Builtin(saved, random_suffix) ==
  /\ pc = "tier3"
  /\ tier_log' = Append(tier_log, Attempt(3, NoCode, {}, IF saved THEN "saved" ELSE "fault"))
  /\ IF saved
     THEN /\ output_filename' = FileOf(3)
          /\ output_path' = SafeName(0, random_suffix)
          /\ created' = created \cup {FileOf(3)}
          /\ generation_successful' = TRUE
          /\ shown' = shown \cup {"success: safe presentation"}
     ELSE /\ shown' = shown \cup {"error: safe generation failed"}
          /\ UNCHANGED <<output_filename, created, generation_successful, output_path>>
  /\ pc' = "download"
  /\ UNCHANGED <<config, llm, orig_llm, state, node, attempt, last_error, wmode,
                 stage_attempt, ret, judgement, exc, result, calls, primary_fault, last_sleep,
                 last_outcome, quota_from, ret_from, verdicts, entered, stage_raised,
                 all_transient, final_output, modified_code, safe_file, safe_code,
                 exec_globals, exec_locals, other_path>>

\* the download button after the try statement
Download ==
  /\ pc = "download"
  /\ shown' = IF generation_successful /\ output_filename # NoFile
              THEN shown \cup {"download button"}
              ELSE IF generation_successful
              THEN shown \cup {"warning: no file to download"}
              ELSE shown
  /\ pc' = "app_end"
  /\ UNCHANGED <<config, llm, orig_llm, state, node, attempt, last_error, wmode,
                 stage_attempt, ret, judgement, exc, result, calls, primary_fault, last_sleep,
                 last_outcome, quota_from, ret_from, verdicts, entered, stage_raised,
                 all_transient, final_output, modified_code, safe_file, safe_code,
                 exec_globals, exec_locals, generation_successful, output_filename, created,
                 tier_log, output_path, other_path>>

\* another session of the page reaches generate_safe_presentation and saves
\* its .pptx in workspace/output. The step changes nothing this session reads,
\* so its place among the steps does not matter: it is taken once this
\* session has saved the file of its own call and is done
OtherSession(path) ==
  /\ pc = "app_end"
  /\ output_path \in SessionPaths
  /\ other_path = NoPath
  /\ other_path' = path
  /\ UNCHANGED <<config, llm, orig_llm, state, node, pc, attempt, last_error, wmode,
                 stage_attempt, ret, judgement, exc, result, calls, primary_fault, last_sleep,
                 last_outcome, quota_from, ret_from, verdicts, entered, stage_raised,
                 all_transient, final_output, modified_code, safe_file, safe_code,
                 exec_globals, exec_locals, generation_successful, output_filename, created,
                 shown, tier_log, output_path>>

\* outcomes of one call of the text-generation service
Outcomes == {"ok"} \cup FaultMsgs

Next ==
  \/ EnterNode
  \/ \E out \in Outcomes : GeneratorCall(out)
  \/ \E out \in Outcomes, j \in BOOLEAN, r \in LLMReasons : EvaluatorCall(out, j, r)
  \/ WrapperCatch
  \/ WrapperFallbackCatch
  \/ StoryUpdate
  \/ EvaluateUpdate
  \/ ContentsUpdate
  \/ CodeUpdate
  \/ RunReturn
  \/ RunExcept
  \/ \E text \in RunTexts : AppGate(text)
  \/ \E out \in ExecResults, earlier \in BOOLEAN, stale \in BOOLEAN : Tier1Exec(out, earlier, stale)
  \/ \E out \in ExecResults, earlier \in BOOLEAN : Tier2Exec(out, earlier)
  \/ \E saved \in BOOLEAN, random_suffix \in Suffixes : Tier3Builtin(saved, random_suffix)
  \/ \E path \in SessionPaths : OtherSession(path)
  \/ Download

Spec == Init /\ [][Next]_vars

\* the run is sequential and blocking: whatever step is enabled is taken
FairSpec == Spec /\ WF_vars(Next)

\* ------------------------------------------------------------------------
\* Vocabulary of the properties
\* ------------------------------------------------------------------------

\* the faults the wrapper's step 1 classifies as QuotaExceeded
QuotaExceededClass == {MsgInsufficientQuota, MsgRateLimitCode}

\* no fallback provider is configured: fallback disabled, primary model already
\* the fallback model, or no fallback client
NoFallbackConfigured ==
  ~use_fallback \/ model_name = FallbackModel \/ fallback_llm = None

\* the stages that produce text, and the degraded output of each
GeneratorNodes == {"generate_story", "generate_slide_contents", "generate_pptx_code"}

DegradedOutput(n) ==
  CASE n = "generate_story" -> StoryPlaceholder
    [] n = "generate_slide_contents" -> ContentsPlaceholder
    [] n = "generate_pptx_code" -> CodePlaceholder

\* every service call of the wrapper call so far failed with a Transient or
\* Other fault
OnlyTransientOrOther ==
  quota_from = {} /\ last_outcome \in {MsgTransient, MsgOther}

\* the outcomes of an exec that are faults
ExecFaults == {"missing_placeholder", "key_error", "fault"}

\* tier t was attempted, and the outcome it had
Attempted(t) == \E i \in DOMAIN tier_log : tier_log[i].tier = t

EntryOf(t) == tier_log[CHOOSE i \in DOMAIN tier_log : tier_log[i].tier = t]

\* the page is done with the request
AppEnded == pc = "app_end"

\* the page offers a file this run produced
ArtifactReported == "download button" \in shown /\ output_filename \in created

\* the page shows an error message that carries the exception's text
FailureReported ==
  shown \cap {"error: code execution failed", "error: safe code failed",
              "error: safe generation failed"} # {}

\* the run has stopped: graph.invoke returned or raised
Stopped == pc \in {"done", "aborted", "exit"}

\* the run stopped in Done
ReachedDone == pc \in {"done", "exit"} /\ node = "END"

\* ------------------------------------------------------------------------
\* Properties
\* ------------------------------------------------------------------------

\* C1: in every reachable state 0 <= iteration <= 5; iteration is 0 until the
\* first Story call returns, the update of a Story call adds exactly 1 to it,
\* and no other step changes it.
C1_IterationBounded ==
  /\ [](/\ state.iteration \in 0..MaxIterations
        /\ (entered["generate_story"] = 0 => state.iteration = 0)
        /\ state.iteration <= entered["generate_story"]
        /\ entered["generate_story"] <= state.iteration + 1)
  /\ [][IF pc = "returned" /\ node = "generate_story"
        THEN state'.iteration = state.iteration + 1
        ELSE state'.iteration = state.iteration]_vars

\* C1 witness: the fifth Story call was rejected and the run moved on with
\* iteration = 5
C1_Witness ==
  /\ state.iteration = MaxIterations
  /\ ~state.current_judge
  /\ node = "generate_slide_contents"
  /\ entered["generate_story"] = MaxIterations

\* C2: leaving Evaluate, the next node is Story iff the judgement is a
\* rejection and iteration < 5, and Structure otherwise; no Story call follows
\* an acceptance (an accepting verdict is the last verdict, and Story never
\* runs once one exists).
C2_EvaluateTransition ==
  /\ [][(pc = "returned" /\ node = "evaluate_story") =>
          /\ node' \in {"generate_story", "generate_slide_contents"}
          /\ (node' = "generate_story") <=>
               (~judgement.judge /\ state.iteration < MaxIterations)]_vars
  /\ [](/\ \A i \in DOMAIN verdicts : verdicts[i] => i = Len(verdicts)
        /\ (node = "generate_story" => \A i \in DOMAIN verdicts : ~verdicts[i]))

\* C2 witness: an acceptance before the fifth iteration, and Structure is next
C2_Witness ==
  /\ pc = "node"
  /\ node = "generate_slide_contents"
  /\ state.current_judge
  /\ state.iteration = 2
  /\ verdicts = <<FALSE, TRUE>>

\* C3: when the graph ends and no stage call raised, iteration is the number
\* of Story calls and of Evaluate calls, every verdict before the last is a
\* rejection, the last is an acceptance or iteration = 5, Structure and
\* Synthesize each ran once and slide_gen_code is set.
C3_FinalIteration ==
  (ReachedDone /\ ~stage_raised) =>
    /\ state.iteration = entered["generate_story"]
    /\ state.iteration = entered["evaluate_story"]
    /\ state.iteration = Len(verdicts)
    /\ state.iteration \in 1..MaxIterations
    /\ \A i \in 1..(Len(verdicts) - 1) : ~verdicts[i]
    /\ (verdicts[Len(verdicts)] \/ state.iteration = MaxIterations)
    /\ (verdicts[Len(verdicts)] <=> state.current_judge)
    /\ entered["generate_slide_contents"] = 1
    /\ entered["generate_pptx_code"] = 1
    /\ state.slide_gen_code # EmptyText

\* C3 witness: five rejections, and the graph still ended with code
C3_Witness ==
  /\ ReachedDone
  /\ ~stage_raised
  /\ verdicts = <<FALSE, FALSE, FALSE, FALSE, FALSE>>
  /\ state.slide_gen_code.kind = "code"

\* C4 as stated: a run that has stopped has stopped in Done.
C4_AlwaysReachesDone == Stopped => ReachedDone

\* C4 amended: every run ends; it ends in Done, after Structure and Synthesize
\* ran once each, exactly when no fault escaped the wrapper, and otherwise it
\* ends at the node whose fault escaped, with run returning the error code.
C4_RunEnds ==
  /\ <>(pc = "exit")
  /\ [](pc = "exit" =>
         \/ /\ node = "END"
            /\ exc = None
            /\ entered["generate_slide_contents"] = 1
            /\ entered["generate_pptx_code"] = 1
            /\ result = state.slide_gen_code
         \/ /\ node \in GraphNodes \ {"evaluate_story"}
            /\ exc \in FaultMsgs
            /\ state.slide_gen_code = EmptyText
            /\ result = ErrorTemplate)

\* C4 witness: a run that ended at Structure because a fault escaped the wrapper
C4_Witness ==
  /\ pc = "exit"
  /\ node = "generate_slide_contents"
  /\ exc = MsgInsufficientQuota
  /\ result = ErrorTemplate

\* C5: when the evaluator's service call failed, the Evaluation stage returned
\* a judgement with judge = false and a non-empty reason, and the Evaluate node
\* never has a fault in flight.
C5_EvaluatorNeverRaises ==
  /\ (pc = "returned" /\ node = "evaluate_story" /\ last_outcome \in FaultMsgs) =>
       /\ judgement.judge = FALSE
       /\ judgement.reason # ""
  /\ (node = "evaluate_story" => pc \in {"node", "stage", "returned"} /\ exc = None)

\* C5 witness: the evaluator returned after a quota fault of its service call
C5_Witness ==
  /\ pc = "returned"
  /\ node = "evaluate_story"
  /\ last_outcome = MsgInsufficientQuota
  /\ judgement = Judgement(FALSE, EvaluatorErrorReason)

\* C6 as stated: the evaluator's substituted judgement reaches the wrapper only
\* after the wrapper's own recovery failed: after the fallback call when the
\* service fault is a QuotaExceeded one and a fallback is configured, and after
\* max_retries attempts when it is a Transient or Other one.
C6_RecoveryBeforeSubstitution ==
  (pc = "returned" /\ node = "evaluate_story" /\ last_outcome \in FaultMsgs) =>
    /\ (last_outcome \in QuotaExceededClass /\ ~NoFallbackConfigured => calls.fallback = 1)
    /\ (last_outcome \in {MsgTransient, MsgOther} => calls.primary = max_retries)

C9_NoCallAfterQuota ==
  pc = "stage" => ProviderOf(llm[ComponentOf(node)]) \notin quota_from

\* C10: when the fallback call failed the wrapper has raised the fault of that
\* call; a wrapper call that caught a QuotaExceeded fault and is over is over
\* with the value of a call that returned, or with a raised fault.
C10_FallbackFailureRaised ==
  /\ (wmode = "fallback" /\ pc \in {"raised", "aborted", "exit"}) =>
       /\ exc \in FaultMsgs
       /\ exc = last_outcome
       /\ (pc # "raised" => last_error = exc)
  /\ ((primary_fault \in QuotaExceededClass \/ last_error \in QuotaExceededClass) =>
       \/ pc = "stage"
       \/ pc = "raised"
       \/ pc = "returned" /\ ret \in {Produced(node), PlaceholderOf(node)} /\ ret # EmptyText
       \/ pc \in {"aborted", "exit"} /\ exc \in FaultMsgs /\ exc = last_error)

\* C10 witness: the primary raised a quota fault, the fallback call raised
\* another fault, and that one is the fault the wrapper raised
C10_Witness ==
  /\ pc = "aborted"
  /\ wmode = "fallback"
  /\ primary_fault = MsgInsufficientQuota
  /\ exc = MsgQuotaExceeded
  /\ last_error = MsgQuotaExceeded

\* C11: with no fallback configured, a Story, ContentStructuring or CodeSynthesis
\* call all of whose service calls so far failed with Transient or Other faults
\* has no fault in flight and has raised none; it is either about to make a
\* further attempt, or it has returned, and then what it returned is the fixed
\* placeholder of its stage, made by no provider.
C11_PlaceholderOnExhaustion ==
  (NoFallbackConfigured /\ node \in GeneratorNodes /\ OnlyTransientOrOther) =>
    /\ pc \in {"stage", "returned"}
    /\ exc = None
    /\ last_error = None
    /\ (pc = "stage" => stage_attempt \in 1..StageMaxRetries)
    /\ (pc = "returned" =>
          /\ stage_attempt = StageMaxRetries
          /\ ret = DegradedOutput(node)
          /\ ret_from = "none")

\* C11 witness: the code generator returned its placeholder after three Other
\* faults, no fallback being configured
C11_Witness ==
  /\ NoFallbackConfigured
  /\ pc = "returned"
  /\ node = "generate_pptx_code"
  /\ OnlyTransientOrOther
  /\ last_outcome = MsgOther
  /\ stage_attempt = StageMaxRetries
  /\ ret = CodePlaceholder

\* C12 as stated: a stage call that failed with a Transient or Other fault is
\* called again only after a sleep of exactly 2^a, a being the number of the
\* failed attempt, and once a call is over (it returned, or its fault left the
\* wrapper) the latest attempt was followed by no sleep.
C12_BackoffBetweenAttempts ==
  /\ (pc = "stage" /\ last_outcome \in {MsgTransient, MsgOther}) =>
       last_sleep.delay = Pow2(stage_attempt - 1)
  /\ (pc \in {"returned", "aborted"} => last_sleep = NoSleep)

C14_FaultsReachTier3 ==
  (AppEnded /\ \E t \in {1, 2} : Attempted(t) /\ EntryOf(t).out \in ExecFaults) =>
    /\ Attempted(3)
    /\ (EntryOf(3).out = "saved" => created # {})

\* C15: the tiers attempted so far are attempted in increasing order starting
\* with tier 1, every attempt that was followed by another one raised a fault,
\* and once tier 1 has saved its file it is the only tier attempted and its
\* file the only artifact of the run.
C15_TiersInOrder ==
  /\ (tier_log # <<>> => tier_log[1].tier = 1)
  /\ \A i, j \in DOMAIN tier_log : i < j =>
        /\ tier_log[i].tier < tier_log[j].tier
        /\ tier_log[i].out \in ExecFaults
  /\ (pc \in {"tier2", "tier3"} => tier_log[Len(tier_log)].out \in ExecFaults)
  /\ ((Attempted(1) /\ EntryOf(1).out = "saved") =>
        /\ Len(tier_log) = 1
        /\ pc \in {"download", "app_end"}
        /\ created = {FileOf(1)})

\* C15 witness: tier 1 saved its file, the page offered it, and no other tier ran
C15_Witness ==
  /\ AppEnded
  /\ Len(tier_log) = 1
  /\ tier_log[1].out = "saved"
  /\ created = {FileOf(1)}
  /\ "download button" \in shown

\* C16 as stated: once tier 1 has been handled, tier 2 is the next tier or was
\* attempted exactly when tier 1 raised the missing-placeholder fault; and the
\* code tier 2 executed is the sanitized code of this run, started in a
\* namespace with the names tier 1 started with and none that tier 1 bound.
C16_Tier2OnMissingPlaceholder ==
  /\ (Attempted(1) =>
        ((pc = "tier2" \/ Attempted(2)) <=> EntryOf(1).out = "missing_placeholder"))
  /\ (Attempted(2) =>
        /\ EntryOf(2).code = Sanitize(final_output)
        /\ EntryOf(2).ns = EntryOf(1).ns
        /\ EntryOf(2).ns \cap CodeBindings = {})

\* C17 as stated: when the generated code reads a placeholder index the slide
\* does not have and the cascade has ended, tier 1 executed the code as
\* generated and raised the missing-placeholder fault, tier 2 executed the
\* sanitized code and saved a file, and that file exists.
C17_SanitizedCodeRecovers ==
  (AppEnded /\ Attempted(1) /\ MissingAccesses(final_output.body) # {}) =>
    /\ EntryOf(1).code = final_output
    /\ EntryOf(1).out = "missing_placeholder"
    /\ Attempted(2)
    /\ EntryOf(2).code = Sanitize(final_output)
    /\ EntryOf(2).out = "saved"
    /\ FileOf(2) \in created

\* C18 as stated: when every service call of the run failed with a Transient
\* fault and no fallback is configured, the page ends having received the
\* placeholder code of CodeSynthesis, having handed it to the cascade, and
\* having reached tier 3, whose file exists.
C18_UnreachableServiceStillYieldsArtifact ==
  (AppEnded /\ all_transient /\ NoFallbackConfigured) =>
    /\ final_output.body = BodyPlaceholderCode
    /\ Attempted(1)
    /\ Attempted(3)
    /\ FileOf(3) \in created

\* C19 as stated: when generation_successful was set by a tier that executed
\* generated code, that tier's exec saved a new file in workspace/output, and
\* the file behind the download button is one this run created.
C19_SuccessMeansNewFile ==
  /\ ((generation_successful /\ tier_log[Len(tier_log)].tier \in {1, 2}) =>
        tier_log[Len(tier_log)].out = "saved")
  /\ ("download button" \in shown => output_filename \in created)

\* C20 as stated: when the page is done with the request it has offered an
\* artifact produced by the run or has shown an error naming the cause.
C20_ArtifactOrFailure ==
  AppEnded => (ArtifactReported \/ FailureReported)

\* ------------------------------------------------------------------------
\* The sanitizer as a function of the code text

\* the patterns the sanitizer is there for: a subscript of .placeholders, an
\* assignment to .fill.fore_color.rgb, a call of .shapes.add_picture
Fragile(k) == k.t \in {"subscript", "fill_assign", "add_picture"}

\* the guarded call that stands for a fragile piece
GuardedOf(k) ==
  CASE k.t = "subscript" -> Tok("get_placeholder_safe", k.recv, k.arg)
    [] k.t = "fill_assign" -> Tok("set_fill_color_safe", k.recv, 0)
    [] k.t = "add_picture" -> Tok("add_image_safe", k.recv, 0)
    [] OTHER -> k

\* the handler has computed modified_code from final_output
SanitizerRan == modified_code # NoCode

\* C21 as stated: sanitizing the text the sanitizer produced gives that text
\* again: sanitize(sanitize(code)) = sanitize(code).
C21_SanitizeIdempotent ==
  SanitizerRan => SanitizeText(TextOf(modified_code)) = TextOf(modified_code)

\* C22 as stated: when the code holds no placeholder subscript, no fill-colour
\* assignment and no add_picture call, the sanitizer returns it unchanged.
C22_NoPatternNoChange ==
  (SanitizerRan /\ \A k \in Pieces(TextOf(final_output)) : ~Fragile(k)) =>
    TextOf(modified_code) = TextOf(final_output)

\* C23 as stated: every placeholder subscript, fill-colour assignment and
\* add_picture call of the code is replaced by its guarded call in the
\* sanitized text, whatever the index and whatever the name it is applied to.
C23_EveryOccurrenceRewritten ==
  SanitizerRan =>
    \A i \in DOMAIN TextOf(final_output) :
      Fragile(TextOf(final_output)[i]) =>
        \E j \in DOMAIN TextOf(modified_code) :
          /\ TextOf(modified_code)[j] = GuardedOf(TextOf(final_output)[i])
          /\ Len(TextOf(modified_code)) - j = Len(TextOf(final_output)) - i

\* C24 as stated: two sessions of the page never save their .pptx under the
\* same path in workspace/output, whichever tier produced the file and also
\* when both name it within the same second.
C24_DistinctOutputPaths ==
  (output_path # NoPath /\ other_path # NoPath) => output_path # other_path

\* the names of exec_globals that hold an API key, and those that hold a class
\* or an instance of a text-generation client
CredentialNames == {"OPENAI_API_KEY", "GOOGLE_API_KEY"}
ClientNames == {"ChatOpenAI", "OpenAI", "openai_llm", "openai_chat"}

\* C25 as stated: the namespace generated code is executed in, in tier 1 and
\* in tier 2, holds no credential and no text-generation client.
C25_NamespaceWithoutSecrets ==
  \A i \in DOMAIN tier_log :
    tier_log[i].tier \in {1, 2} =>
      tier_log[i].ns \cap (CredentialNames \cup ClientNames) = {}

\* ------------------------------------------------------------------------
\* The state record and the order of the stages

\* C26: user_request is one of the texts a run is started with, and no step of
\* the run, of the wrapper or of the page changes it.
C26_RequestNeverChanged ==
  /\ [](state.user_request \in Requests)
  /\ [][state'.user_request = state.user_request]_vars

\* C26 witness: after two rounds of Story and Evaluate the Structure stage is
\* being called on the fallback, after a retry on the primary, the request
\* still in place
C26_Witness ==
  /\ node = "generate_slide_contents"
  /\ state.iteration = 2
  /\ calls.primary = 2
  /\ calls.fallback = 1
  /\ state.user_request \in Requests

\* the fields of the state record
StateFields ==
  {"user_request", "story", "iteration", "current_judge", "judgement_reason",
   "slide_contents", "slide_gen_code"}

\* the step leaves every field of the state outside own as it was
OnlyChanges(own) == \A f \in StateFields \ own : state'[f] = state[f]

\* C29: the state starts with user_request alone set, iteration 0 and
\* current_judge false; the update of Story changes story and iteration only,
\* that of Evaluate current_judge and judgement_reason only, that of Structure
\* slide_contents only, that of Synthesize slide_gen_code only, and no other
\* step changes the state.
C29_StagesChangeOwnFields ==
  /\ state.user_request \in Requests
  /\ state.story = EmptyText
  /\ state.iteration = 0
  /\ state.current_judge = FALSE
  /\ state.judgement_reason = ""
  /\ state.slide_contents = EmptyText
  /\ state.slide_gen_code = EmptyText
  /\ [][IF pc = "returned" /\ node = "generate_story"
          THEN OnlyChanges({"story", "iteration"})
        ELSE IF pc = "returned" /\ node = "evaluate_story"
          THEN OnlyChanges({"current_judge", "judgement_reason"})
        ELSE IF pc = "returned" /\ node = "generate_slide_contents"
          THEN OnlyChanges({"slide_contents"})
        ELSE IF pc = "returned" /\ node = "generate_pptx_code"
          THEN OnlyChanges({"slide_gen_code"})
        ELSE state' = state]_vars

\* C29 witness: the run is done and every stage has written its fields
C29_Witness ==
  /\ ReachedDone
  /\ state.story # EmptyText
  /\ state.iteration = 3
  /\ state.current_judge
  /\ state.judgement_reason # ""
  /\ state.slide_contents # EmptyText
  /\ state.slide_gen_code # EmptyText

\* the wrapper is inside its fallback call of func
InFallbackCall == wmode = "fallback" /\ pc \in {"stage", "raised", "returned"}

\* no call of the wrapper is in progress
NoWrapperCall == pc \in {"node", "done", "aborted", "exit"}

\* C27: while the wrapper is in its fallback call every component is bound to
\* the fallback client; whenever no wrapper call is in progress, after a return
\* as after a raise, every component has the binding __init__ gave it; the
\* step that swaps the bindings and the step that restores them on a raise
\* leave the state record as it is.
C27_SwapAndRestore ==
  /\ [](InFallbackCall => \A c \in Components : llm[c] = fallback_llm /\ llm[c] # None)
  /\ [](NoWrapperCall => llm = InitialBindings)
  /\ [][((~InFallbackCall /\ InFallbackCall') \/ (InFallbackCall /\ pc' = "aborted")) =>
          state' = state]_vars

\* C27 witness: the fallback call of the Structure stage raised, the wrapper
\* raises in turn, and the evaluator has its structured primary client back
C27_Witness ==
  /\ pc = "aborted"
  /\ wmode = "fallback"
  /\ node = "generate_slide_contents"
  /\ calls.fallback = 1
  /\ llm["story_evaluator"] = "primary.structured"
  /\ llm["story_generator"] = "primary"

\* ------------------------------------------------------------------------
\* One call of the wrapper

\* a wrapper call is in progress: func is running, or the wrapper has caught
\* what func raised
InWrapperCall == pc \in {"stage", "raised"}

\* C30: with max_retries >= 1 a wrapper call makes at most max_retries calls of
\* the stage on the primary and at most one on the fallback; no wrapper call
\* goes on for ever; one that returned hands on a value, which is what the
\* latest call of the stage returned, and one that raised raised the fault it
\* caught last.
C30_WrapperTerminates ==
  /\ [](max_retries >= 1 =>
          /\ calls.primary <= max_retries
          /\ calls.fallback <= 1
          /\ (pc = "returned" =>
                /\ exc = None
                /\ (node \in GeneratorNodes => ret # EmptyText)
                /\ (node = "evaluate_story" => judgement.judge \in BOOLEAN))
          /\ (pc = "aborted" => exc \in FaultMsgs /\ exc = last_error))
  /\ []<>(~InWrapperCall)

\* C30 witness: three calls on the primary and one on the fallback, which
\* returned the value the wrapper returns
C30_Witness ==
  /\ pc = "returned"
  /\ max_retries = MaxRetriesBound
  /\ calls = [primary |-> MaxRetriesBound, fallback |-> 1]
  /\ ret_from = "fallback"
  /\ ret # EmptyText

\* ------------------------------------------------------------------------
\* The order of the stages

\* the edges of the graph, END included
StageOrder ==
  {<<"generate_story", "evaluate_story">>, <<"evaluate_story", "generate_story">>,
   <<"evaluate_story", "generate_slide_contents">>,
   <<"generate_slide_contents", "generate_pptx_code">>, <<"generate_pptx_code", "END">>}

\* C28: the run starts at Story and moves from stage to stage only along
\* Story -> Evaluate -> (Story | Structure) -> Synthesize -> END; a Story call
\* that returned is followed by an Evaluate call and by nothing else; Structure
\* and Synthesize are entered at most once, Structure after as many Evaluate
\* calls as Story calls, Synthesize after Structure; the step from the last
\* Evaluate to Structure leaves the story as it is, and the story Structure
\* reads is the one of the latest Story call.
C28_StageOrder ==
  /\ node = "generate_story"
  /\ [][node' # node => <<node, node'>> \in StageOrder]_vars
  /\ [][(pc = "returned" /\ node = "generate_story") =>
          (node' = "evaluate_story" /\ pc' = "node")]_vars
  /\ [][(node = "evaluate_story" /\ node' = "generate_slide_contents") =>
          state'.story = state.story]_vars
  /\ [](/\ entered["generate_slide_contents"] <= 1
        /\ entered["generate_pptx_code"] <= 1
        /\ entered["generate_pptx_code"] <= entered["generate_slide_contents"]
        /\ (node \in {"generate_slide_contents", "generate_pptx_code", "END"} =>
              /\ entered["evaluate_story"] = entered["generate_story"]
              /\ entered["generate_story"] = state.iteration
              /\ entered["generate_story"] >= 1
              /\ (state.story.kind = "story" => state.story.of = state.iteration)
              /\ (state.slide_contents.kind = "contents" =>
                    state.slide_contents.of = state.story.of)))

\* C28 witness: three rounds of Story and Evaluate, then Structure and
\* Synthesize once each, on the story of the third round
C28_Witness ==
  /\ node = "END"
  /\ pc = "done"
  /\ entered = [n \in GraphNodes |->
                  IF n \in {"generate_story", "evaluate_story"} THEN 3 ELSE 1]
  /\ state.story = Text("story", 3)
  /\ state.slide_contents = Text("contents", 3)

\* ------------------------------------------------------------------------
\* One invocation of a generator stage

\* a generator stage is running
InGeneratorStage == pc = "stage" /\ node \in GeneratorNodes

\* the texts the service returns to the generators
ServiceOutputKinds == {"story", "contents", "code"}

C32_RunReturnsCode ==
  /\ [][pc = "aborted" => (pc' = "exit" /\ result'.kind = "error_template")]_vars
  /\ [][pc = "done" =>
          /\ pc' = "exit"
          /\ result' = state.slide_gen_code
          /\ result'.kind \in {"code", "code_placeholder"}]_vars
  /\ [](pc = "exit" =>
          /\ result.kind \in {"code", "code_placeholder", "error_template"}
          /\ (result.kind = "error_template" <=> exc \in FaultMsgs))

\* C32 witness: the fallback call of CodeSynthesis raised, and run returned the
\* error code
C32_Witness ==
  /\ pc = "exit"
  /\ node = "generate_pptx_code"
  /\ wmode = "fallback"
  /\ exc \in FaultMsgs
  /\ result.kind = "error_template"

\* ------------------------------------------------------------------------
\* The file tier 2 reads

\* C33 as stated: whenever tier 2 is about to execute or has executed, its
\* code is the text the sanitizer of this run wrote to create_pptx_safe.py
\* from the code this run generated, never the text another run left there.
C33_Tier2CodeOfThisRun ==
  /\ (pc = "tier2" =>
        /\ safe_file # NoCode
        /\ safe_code = safe_file
        /\ safe_code.body = final_output.body)
  /\ \A i \in DOMAIN tier_log :
        tier_log[i].tier = 2 => tier_log[i].code.body # BodyEarlierRun

\* ------------------------------------------------------------------------
\* The helper definitions in the sanitized text

\* the pieces of the body of helper name in a text: those after its def line
\* and before the next def line
HelperBody(text, name) ==
  {text[i] : i \in {i \in DOMAIN text :
     /\ text[i].t # "def"
     /\ \E d \in 1..(i - 1) :
          /\ text[d] = Def(name)
          /\ \A m \in (d + 1)..(i - 1) : text[m].t # "def"}}

\* C34 as stated: in the text the sanitizer wrote, the body of
\* set_fill_color_safe still assigns fill.fore_color.rgb directly and the body
\* of add_image_safe still calls slide.shapes.add_picture, and neither body
\* holds a call of its own helper.
C34_HelpersNotRewritten ==
  (SanitizerRan /\ modified_code.safe) =>
    /\ FillAssign("") \in HelperBody(TextOf(modified_code), "set_fill_color_safe")
    /\ GuardedFill("") \notin HelperBody(TextOf(modified_code), "set_fill_color_safe")
    /\ AddPicture("slide") \in HelperBody(TextOf(modified_code), "add_image_safe")
    /\ GuardedPicture \notin HelperBody(TextOf(modified_code), "add_image_safe")

\* ------------------------------------------------------------------------
\* get_placeholder_safe as the sanitizer's text defines it

\* left, top, width and height of a shape, in tenths of an inch
Box(left, top, width, height) ==
  [left |-> left, top |-> top, width |-> width, height |-> height]

\* the indices the sanitizer turns into calls of get_placeholder_safe
GuardedIdx == 0..15

\* a slide, as the set of the idx values of its placeholders
Slides == {{}, {0, 1}, {0, 1, 2, 3}}

\* get_placeholder_safe(slide, idx): slide.placeholders[idx], or on KeyError
\* the shape slide.shapes.add_textbox(left, top, width, height) gives, with
\* default_title or default_content as its text
get_placeholder_safe(slide, idx) ==
  IF idx \in slide
  THEN [shape |-> "placeholder", idx |-> idx, added |-> {}]
  ELSE LET box == CASE idx = 0 -> Box(5, 5, 90, 12)
                    [] idx = 1 -> Box(5, 20, 90, 40)
                    [] idx = 11 -> Box(10, 20, 80, 30)
                    [] OTHER -> Box(10, 15 + ((idx * 5) % 50), 80, 10)
       IN [shape |-> "textbox", idx |-> idx, added |-> {box}]

\* two boxes share an area
Overlap(a, b) ==
  /\ a.left < b.left + b.width
  /\ b.left < a.left + a.width
  /\ a.top < b.top + b.height
  /\ b.top < a.top + a.height

\* C35 as stated: in a run whose sanitized text defines get_placeholder_safe,
\* the helper returns the slide's own placeholder and adds no text box when
\* the index is present, adds one text box when it is absent, and for two
\* distinct absent indices other than 0 and 1 on one slide the added boxes do
\* not overlap.
C35_FallbackBoxesDisjoint ==
  (SanitizerRan /\ Def("get_placeholder_safe") \in Pieces(TextOf(modified_code))) =>
    \A slide \in Slides :
      /\ \A idx \in GuardedIdx :
           IF idx \in slide
           THEN /\ get_placeholder_safe(slide, idx).shape = "placeholder"
                /\ get_placeholder_safe(slide, idx).added = {}
           ELSE /\ get_placeholder_safe(slide, idx).shape = "textbox"
                /\ Cardinality(get_placeholder_safe(slide, idx).added) = 1
      /\ \A i, j \in (GuardedIdx \ slide) \ {0, 1} :
           i # j =>
             \A a \in get_placeholder_safe(slide, i).added,
                b \in get_placeholder_safe(slide, j).added : ~Overlap(a, b)

\* ------------------------------------------------------------------------
\* set_fill_color_safe as the executed code reaches it

\* what an operation on a fill can do; ValueError stands for every exception
\* that is neither AttributeError nor TypeError
NoFault == "none"
FillFaults == {"AttributeError", "TypeError", "ValueError"}

\* a fill object of python-pptx, by what it does: whether fill.type is None,
\* what fill.solid() does, and what fill.fore_color.rgb = color does before
\* and after fill.solid()
Fills ==
  [no_type : BOOLEAN,
   solid : {"ok"} \cup FillFaults,
   direct : {"ok"} \cup FillFaults,
   after_solid : {"ok"} \cup FillFaults]

\* how a call ended: the exception that left it, the value it returned, the
\* number of attempts it made, whether the colour was assigned
Done(raised, returns, attempts, applied) ==
  [raised |-> raised, returns |-> returns, attempts |-> attempts, applied |-> applied]

\* _set_fill_color(fill, color); active says that fill.solid() went through
\* before the call. hasattr(fill, 'fore_color') is False on AttributeError and
\* lets every other exception through.
_set_fill_color(fill, active) ==
  LET needs_solid == fill.no_type /\ ~active
      assign == IF fill.no_type \/ active THEN fill.after_solid ELSE fill.direct
  IN IF needs_solid /\ fill.solid # "ok" THEN Done(fill.solid, "", 1, FALSE)
     ELSE CASE assign = "ok" -> Done(NoFault, "color", 1, TRUE)
            [] assign = "AttributeError" -> Done(NoFault, "None", 1, FALSE)
            [] OTHER -> Done(assign, "", 1, FALSE)

\* the def set_fill_color_safe of the sanitized text: both assignments of its
\* body have become set_fill_color_safe(fill, color), a name the function
\* finds in exec_globals, where it is the lambda that calls _set_fill_color
set_fill_color_safe_def(fill) ==
  LET first == _set_fill_color(fill, FALSE)
      second == _set_fill_color(fill, TRUE)
  IN IF first.raised \in {"AttributeError", "TypeError"}
     THEN IF fill.solid = "ok" /\ second.raised = NoFault
          THEN Done(NoFault, "True", 2, second.applied)
          ELSE Done(NoFault, "False", 2, FALSE)
     ELSE IF first.raised # NoFault THEN first
     ELSE Done(NoFault, "True", 1, first.applied)

\* where the generated code calls the setter: a statement of the module finds
\* the name in exec_locals, a statement inside a def finds it in exec_globals
CallSites == {"module", "def"}

\* the call set_fill_color_safe(fill, color) of the executed code; in_text
\* says that the text defines the helper
set_fill_color_safe(fill, site, in_text) ==
  IF site = "module" /\ in_text
  THEN set_fill_color_safe_def(fill)
  ELSE _set_fill_color(fill, FALSE)

\* the fault of an attempt that activates solid fill when the fill has no
\* type and then assigns the colour
AttemptFault(fill) ==
  IF fill.no_type
  THEN IF fill.solid # "ok" THEN fill.solid
       ELSE IF fill.after_solid # "ok" THEN fill.after_solid ELSE NoFault
  ELSE IF fill.direct # "ok" THEN fill.direct ELSE NoFault

StructuralFaults == {"AttributeError", "TypeError"}

\* C36 as stated: in a run whose sanitized text holds a rewritten fill
\* assignment, every call of the setter makes a second attempt exactly when
\* the first raised AttributeError or TypeError, returns True only when the
\* colour was assigned and False otherwise, and lets out no fault of the
\* second attempt and no structural fault of the first.
C36_FillSetterRetriesOnce ==
  (SanitizerRan /\ GuardedFill("shape") \in Pieces(TextOf(modified_code))) =>
    \A fill \in Fills, site \in CallSites :
      LET r == set_fill_color_safe(fill, site,
                 Def("set_fill_color_safe") \in Pieces(TextOf(modified_code)))
      IN /\ (r.attempts = 2 <=> AttemptFault(fill) \in StructuralFaults)
         /\ r.attempts \in {1, 2}
         /\ (r.raised = NoFault => r.returns \in {"True", "False"})
         /\ (r.returns = "True" => r.applied)
         /\ (r.raised # NoFault => r.attempts = 1 /\ r.raised \notin StructuralFaults)

====
